---- MODULE Spec2Model ----
(***************************************************************************)
(* Call-center staffing calculator (erlang.py and its earlier variant      *)
(* erlang_class.py): construction of CallCenterPredictions, the Erlang C   *)
(* staffing search and the derived metrics.                                *)
(*                                                                         *)
(* Python floats are binary floating-point numbers (IEEE-754, round to     *)
(* nearest, ties to even, gradual underflow).  They are modelled as such   *)
(* in a narrower format: a significand of Prec bits instead of 53 and a    *)
(* largest exponent of ExpRange instead of 1023.  A float is a pair        *)
(* <<m, e>> that stands for m * 2^e, with m odd (<<0, 0>> is zero) and     *)
(* |m| < 2^Prec.  Every arithmetic operation computes the exact result and *)
(* rounds it once, as the hardware does; a result below the smallest       *)
(* subnormal rounds to zero.  The library functions pow and exp are        *)
(* computed to WorkPrec bits and rounded once more.  A power or a          *)
(* factorial of 2^(ExpRange + 1) or more raises OverflowError, as            *)
(* erlangs ** agents and float / int do; no other operation meets such a   *)
(* value within the bounds, so that inf, nan and signed zeros are left out. *)
(***************************************************************************)
EXTENDS Integers, Sequences, FiniteSets, TLC

\* ------------------------------------------------------------------ bounds
Prec == 8
ExpRange == 63
MaxCalls == 3
MaxAht == 2
MinPeriod == 2
MaxPeriod == 3
MaxTat == 1
MaxAgents == 15
MaxArg == 6
MaxPatience == 1
MaxPrints == 2

\* ------------------------------------------------------- integer helpers
Abs(n) == IF n < 0 THEN 0 - n ELSE n

Sign(n) == IF n < 0 THEN 0 - 1 ELSE IF n > 0 THEN 1 ELSE 0

Max(a, b) == IF a >= b THEN a ELSE b

\* The number of bits of n, for 0 <= n < 2^30.
BitLen(n) == CHOOSE k \in 0 .. 30 : n < 2 ^ k /\ (k = 0 \/ n >= 2 ^ (k - 1))

\* The number of trailing zero bits of n, for 0 < n < 2^30.
TwoPart(n) == CHOOSE k \in 0 .. 29 : n % (2 ^ k) = 0 /\ n % (2 ^ (k + 1)) # 0

OddPart(n) == n \div (2 ^ TwoPart(n))

\* ------------------------------------------------- floating-point numbers
Zero == <<0, 0>>

One == <<1, 0>>

Man(x) == x[1]

Exp2(x) == x[2]

\* The position just above the leading bit of x: 2^(Msb(x)-1) <= |x| < 2^Msb(x).
Msb(x) == Exp2(x) + BitLen(Abs(Man(x)))

\* m * 2^e with m made odd.
Norm(m, e) ==
    IF m = 0 THEN Zero
    ELSE <<Sign(m) * OddPart(Abs(m)), e + TwoPart(Abs(m))>>

\* n * 2^e with its s lowest bits rounded away, ties to even.
RoundShift(n, e, s) ==
    LET a == Abs(n)
    IN  IF s <= 0 THEN Norm(n, e)
        ELSE IF s > BitLen(a) + 1 THEN Zero
        ELSE LET q == a \div (2 ^ s)
                 r == a % (2 ^ s)
                 half == 2 ^ (s - 1)
                 up == r > half \/ (r = half /\ q % 2 = 1)
                 q2 == IF up THEN q + 1 ELSE q
             IN  Norm(Sign(n) * q2, e + s)

\* n * 2^e rounded to p significant bits.
RoundTo(n, e, p) == RoundShift(n, e, BitLen(Abs(n)) - p)

\* The exponent of the last place of the smallest subnormal number.
MinExp == 2 - ExpRange - Prec

\* n * 2^e rounded to a float: to Prec significant bits, and to a multiple of
\* 2^MinExp where that is coarser (gradual underflow, down to zero).
FRound(n, e) == RoundShift(n, e, Max(BitLen(Abs(n)) - Prec, MinExp - e))

\* The precision pow and exp work at before their result is rounded.
WorkPrec == Prec + 5

Neg(x) == <<0 - Man(x), Exp2(x)>>

\* x / y for x # 0 and y # 0, unrounded: <<n, e>> with n the quotient to p + 2 bits or
\* more and a sticky last bit.
DivExact(x, y, p) ==
    LET am == Abs(Man(x))
        bm == Abs(Man(y))
        k == Max(0, p + 2 + BitLen(bm) - BitLen(am))
        num == am * (2 ^ k)
        q == num \div bm
        sticky == IF num % bm = 0 THEN 0 ELSE 1
    IN  <<Sign(Man(x)) * Sign(Man(y)) * (2 * q + sticky),
          Exp2(x) - Exp2(y) - k - 1>>

\* x + y for x # 0 and y # 0, unrounded: exact when the operands overlap,
\* else the larger one (the smaller is below an eighth of its last place at
\* p bits).
AddExact(x, y, p) ==
    IF Msb(x) - Msb(y) > p + 2 THEN x
    ELSE IF Msb(y) - Msb(x) > p + 2 THEN y
    ELSE LET e0 == IF Exp2(x) <= Exp2(y) THEN Exp2(x) ELSE Exp2(y)
         IN  <<Man(x) * (2 ^ (Exp2(x) - e0)) + Man(y) * (2 ^ (Exp2(y) - e0)), e0>>

\* The operations at working precision p, exponent unbounded.
MulP(x, y, p) ==
    IF Man(x) = 0 \/ Man(y) = 0 THEN Zero
    ELSE RoundTo(Man(x) * Man(y), Exp2(x) + Exp2(y), p)

DivP(x, y, p) ==
    IF Man(x) = 0 \/ Man(y) = 0 THEN Zero
    ELSE LET d == DivExact(x, y, p) IN RoundTo(Man(d), Exp2(d), p)

AddP(x, y, p) ==
    IF Man(x) = 0 THEN y
    ELSE IF Man(y) = 0 THEN x
    ELSE LET d == AddExact(x, y, p) IN RoundTo(Man(d), Exp2(d), p)

\* The operations of Python floats (x / y for y # 0).
FMul(x, y) ==
    IF Man(x) = 0 \/ Man(y) = 0 THEN Zero
    ELSE FRound(Man(x) * Man(y), Exp2(x) + Exp2(y))

FDiv(x, y) ==
    IF Man(x) = 0 \/ Man(y) = 0 THEN Zero
    ELSE LET d == DivExact(x, y, Prec) IN FRound(Man(d), Exp2(d))

FAdd(x, y) ==
    IF Man(x) = 0 THEN y
    ELSE IF Man(y) = 0 THEN x
    ELSE LET d == AddExact(x, y, Prec) IN FRound(Man(d), Exp2(d))

FSub(x, y) == FAdd(x, Neg(y))

FLess(x, y) == Man(FSub(x, y)) < 0

FLessEq(x, y) == Man(FSub(x, y)) <= 0

\* float(n) for a Python int n.
IntToFloat(n) == FRound(n, 0)

\* math.ceil of a float: a Python int.
Ceil(x) ==
    IF Exp2(x) >= 0 THEN Man(x) * (2 ^ Exp2(x))
    ELSE IF Msb(x) <= 0 THEN (IF Man(x) > 0 THEN 1 ELSE 0)
    ELSE LET d == 2 ^ (0 - Exp2(x))
         IN  IF Man(x) > 0 THEN (Man(x) + d - 1) \div d
             ELSE 0 - ((0 - Man(x)) \div d)

\* ------------------------------------------------------ library functions
\* math.factorial(n) for n >= 0, kept as odd part and power of two:
\* n! = FactOdd(n) * 2^FactTwos(n).
RECURSIVE FactOdd(_)
FactOdd(n) == IF n <= 1 THEN 1 ELSE FactOdd(n - 1) * OddPart(n)

RECURSIVE FactTwos(_)
FactTwos(n) == IF n <= 1 THEN 0 ELSE FactTwos(n - 1) + TwoPart(n)

\* float(factorial(n)): the conversion made by float / int.
factorial(n) == FRound(FactOdd(n), FactTwos(n))

\* <<x^0, ..., x^n>> at working precision.
RECURSIVE Powers(_, _)
Powers(x, n) ==
    IF n = 0 THEN <<One>>
    ELSE LET s == Powers(x, n - 1)
         IN  Append(s, MulP(s[n], x, WorkPrec))

\* x ** n for a float x and an int n >= 0 (0.0 ** 0 is 1.0).
FPow(x, n) == LET w == Powers(x, n)[n + 1] IN FRound(Man(w), Exp2(w))

\* The series 1 + y + y^2/2! + ... for y > 0, to WorkPrec bits.
RECURSIVE ExpSeries(_, _, _, _)
ExpSeries(y, k, term, sum) ==
    LET w == WorkPrec
        t == DivP(MulP(term, y, w), RoundTo(k, 0, w), w)
    IN  IF Man(t) = 0 \/ Msb(t) < Msb(sum) - w - 2 THEN sum
        ELSE ExpSeries(y, k + 1, t, AddP(sum, t, w))

\* math.exp.
FExp(x) ==
    IF Man(x) = 0 THEN One
    ELSE IF Man(x) > 0
         THEN LET w == ExpSeries(x, 1, One, One) IN FRound(Man(w), Exp2(w))
         ELSE LET d == DivExact(One, ExpSeries(Neg(x), 1, One, One), Prec)
              IN  FRound(Man(d), Exp2(d))

\* ------------------------------------------------- results and exceptions
\* What a call gives: the exception it raises ("" when it returns), the float
\* it returns, or the int it returns.
Returns(v) == [exc |-> "", val |-> v, int |-> 0]

ReturnsInt(n) == [exc |-> "", val |-> Zero, int |-> n]

Raises(e) == [exc |-> e, val |-> Zero, int |-> 0]

\* An attribute not assigned yet.
Unset == <<>>

\* ----------------------------------------------------------- Traffic Model
\* erlang.py: the window in seconds, then calls * (aht / _period).
traffic_intensity(calls_, aht_, start_, end_) ==
    LET _period == IntToFloat(end_ - start_)
    IN  IF Man(_period) = 0 THEN Raises("ZeroDivisionError")
        ELSE Returns(FMul(IntToFloat(calls_), FDiv(IntToFloat(aht_), _period)))

\* erlang_class.py: the same quantity in three steps.
period_in_seconds(start_, end_) == IntToFloat(end_ - start_)

calls_per_hour(calls_, period_) ==
    IF Man(period_) = 0 THEN Raises("ZeroDivisionError")
    ELSE Returns(FMul(IntToFloat(calls_), FDiv(IntToFloat(3600), period_)))

\* A mutation of class_traffic_intensity: the handling time taken per
\* minute, not per hour.
class_traffic_intensity_PerMinute(cph_, aht_) ==
    FMul(cph_, FDiv(IntToFloat(aht_), IntToFloat(60)))

class_traffic_intensity(cph_, aht_) ==
    FMul(cph_, FDiv(IntToFloat(aht_), IntToFloat(3600)))

\* ----------------------------------------------------- Erlang-C Evaluator
\* The partial sums of sum(erlangs**_ / factorial(_) for _ in range(n)),
\* added left to right from 0: <<0, t0, t0 + t1, ...>>.
RECURSIVE PartialSums(_, _)
PartialSums(a, n) ==
    IF n = 0 THEN <<Zero>>
    ELSE LET s == PartialSums(a, n - 1)
         IN  Append(s, FAdd(s[n], FDiv(FPow(a, n - 1), factorial(n - 1))))

SumTerms(a, n) == PartialSums(a, n)[n + 1]

\* The float x is beyond the largest finite float.
Overflows(x) == Msb(x) > ExpRange + 1

\* erlang_c(agents) of an object whose traffic intensity is a: 0.0 ** n
\* raises for n < 0, factorial(n) raises for n < 0, erlangs / 0 raises,
\* and a power or a factorial beyond the floats raises OverflowError.
erlang_c(a, agents_) ==
    IF agents_ < 0
    THEN (IF Man(a) = 0 THEN Raises("ZeroDivisionError") ELSE Raises("ValueError"))
    ELSE IF agents_ = 0 THEN Raises("ZeroDivisionError")
    ELSE IF Overflows(FPow(a, agents_)) \/ Overflows(factorial(agents_))
    THEN Raises("OverflowError")
    ELSE LET _num == FDiv(FPow(a, agents_), factorial(agents_))
             _den == FMul(SumTerms(a, agents_),
                          FSub(One, FDiv(a, IntToFloat(agents_))))
             total == FAdd(_den, _num)
         IN  IF Man(total) = 0 THEN Raises("ZeroDivisionError")
             ELSE Returns(FDiv(_num, total))

\* -------------------------------------------------- Service-Level Evaluator
service_level(a, agents_, tat_, aht_) ==
    LET c == erlang_c(a, agents_)
    IN  IF c.exc # "" THEN c
        ELSE IF aht_ = 0 THEN Raises("ZeroDivisionError")
        ELSE Returns(FSub(One,
                 FMul(c.val,
                      FExp(FMul(FSub(a, IntToFloat(agents_)),
                                FDiv(IntToFloat(tat_), IntToFloat(aht_)))))))

\* --------------------------------------------------------- Derived Metrics
occupancy(a, raw_) == Returns(FDiv(a, IntToFloat(raw_)))

agents_required(raw_, shrinkage) ==
    LET available == FSub(One, shrinkage)
    IN  IF Man(available) = 0 THEN Raises("ZeroDivisionError")
        ELSE ReturnsInt(Ceil(FDiv(IntToFloat(raw_), available)))

\* (self.p_wait * self.aht) / (self.raw_agents - self.erlangs).
average_speed_of_answer(p_wait_, aht_, raw_, a) ==
    LET spare == FSub(IntToFloat(raw_), a)
    IN  IF Man(spare) = 0 THEN Raises("ZeroDivisionError")
        ELSE Returns(FDiv(FMul(p_wait_, IntToFloat(aht_)), spare))

percentage_calls_answered_immediately(p_wait_) == Returns(FSub(One, p_wait_))

\* self.p_wait * exp((self.erlangs - self.raw_agents) * (patience / self.aht)).
erlang_a(p_wait_, a, raw_, average_patience, aht_) ==
    IF aht_ = 0 THEN Raises("ZeroDivisionError")
    ELSE Returns(FMul(p_wait_,
             FExp(FMul(FSub(a, IntToFloat(raw_)),
                       FDiv(IntToFloat(average_patience), IntToFloat(aht_))))))

\* ------------------------------------------------------------------- state
VARIABLES
    variant,      \* which module's class: "erlang" or "erlang_class"
    start_time,   \* the constructor's arguments, times in seconds
    end_time,
    calls,
    aht,
    tsl,
    tat,
    period,       \* erlang_class only
    cph,          \* erlang_class only
    erlangs,
    raw_agents,   \* 0 while not assigned
    p_wait,       \* erlang only
    pc,           \* where the constructor is: "init", "traffic", "guess",
                  \* "search", "p_wait"; then "ready" or "failed"
    agents,       \* the local of raw_agents_required
    tried,        \* history: the agent counts the search has evaluated
    exc,          \* the exception the constructor raised, "" if none
    raised_in,    \* the method that raised it
    ret           \* the last method call on the constructed object

VARIABLES
    wrapper_pc,     \* where wrapper is: "enter", "redirect", "start", "func",
                    \* "finally", "join", "restore", "print"; then "returned"
                    \* or "raised"
    animate_pc,     \* where the thread _t is: "unstarted", "while", "for",
                    \* "write", "sleep", "final", "terminated"
    _done,          \* the flag shared by wrapper and animate
    char_ix,        \* the position of animate's for loop in _chars
    entry_stdout,   \* the stream sys.stdout refers to when wrapper is entered
    sys_stdout,     \* the stream sys.stdout refers to
    loading_stdout, \* the local of wrapper, "" before it is assigned
    func_stdout,    \* what has been written to the StringIO
    shown,          \* what has been written to the entry stream
    printed,        \* how many times func has printed
    outcome,        \* how func ended: "", "returns" or "raises"
    observed,       \* history: animate has read _done as True
    joined_at       \* history: animate_pc when sys.stdout was reassigned

\* The variables of loading.py.
lvars == <<wrapper_pc, animate_pc, _done, char_ix, entry_stdout, sys_stdout,
           loading_stdout, func_stdout, shown, printed, outcome, observed,
           joined_at>>

vars == <<variant, start_time, end_time, calls, aht, tsl, tat, period, cph,
          erlangs, raw_agents, p_wait, pc, agents, tried, exc, raised_in, ret>>

inputs == <<variant, start_time, end_time, calls, aht, tsl, tat>>

Ratio(a, b) == FDiv(IntToFloat(a), IntToFloat(b))

\* Target service levels: below the range, its ends, inside it, above it.
TargetLevels ==
    {Ratio(0 - 1, 2), Zero, Ratio(1, 2), Ratio(4, 5), One, Ratio(3, 2)}

\* Shrinkage arguments: 0, 0.3, 0.5 and the values 1, 1.5, 2 outside [0, 1).
Shrinkages == {Zero, Ratio(3, 10), Ratio(1, 2), One, Ratio(3, 2), IntToFloat(2)}

\* Agent counts passed to erlang_c by a caller.
AgentArgs == (0 - 1) .. MaxArg

\* Values of average_patience passed to erlang_a by a caller.
Patiences == 0 .. MaxPatience

NoCall == [op |-> "", n |-> 0, x |-> Zero, res |-> Returns(Zero)]

\* No wrapped function has been called.
NotWrapped ==
    /\ wrapper_pc = "enter"
    /\ animate_pc = "unstarted"
    /\ _done = FALSE
    /\ char_ix = 0
    /\ sys_stdout = entry_stdout
    /\ loading_stdout = ""
    /\ func_stdout = <<>>
    /\ shown = <<>>
    /\ printed = 0
    /\ outcome = ""
    /\ observed = FALSE
    /\ joined_at = ""

Fresh ==
    /\ period = Unset
    /\ cph = Unset
    /\ erlangs = Unset
    /\ raw_agents = 0
    /\ p_wait = Unset
    /\ pc = "init"
    /\ agents = 0
    /\ tried = {}
    /\ exc = ""
    /\ raised_in = ""
    /\ ret = NoCall

\* The constructor is entered with small workloads and every target level,
\* with the workload of tests/erlang_test.py, with one call in a window of
\* 4096 seconds (a traffic intensity whose powers underflow), with 33
\* calls in 2 seconds (a traffic intensity whose powers overflow), or with
\* a window that ends at or before its start or a handling time <= 0.
Init ==
    /\ variant \in {"erlang", "erlang_class"}
    /\ start_time = 0
    /\ \/ /\ end_time \in MinPeriod .. MaxPeriod
          /\ calls \in 0 .. MaxCalls
          /\ aht \in 1 .. MaxAht
          /\ tsl \in TargetLevels
          /\ tat \in 0 .. MaxTat
       \/ /\ end_time = 1800
          /\ calls = 100
          /\ aht = 180
          /\ tsl = Ratio(4, 5)
          /\ tat = 20
       \/ /\ end_time = 4096
          /\ calls = 1
          /\ aht = 1
          /\ tsl \in TargetLevels
          /\ tat = 0
       \/ /\ end_time = 2
          /\ calls = 33
          /\ aht = 1
          /\ tsl \in TargetLevels
          /\ tat = 0
       \/ /\ end_time \in {0 - 2, 0, 2}
          /\ aht \in {0 - 1, 0, 1}
          /\ end_time <= start_time \/ aht <= 0
          /\ calls \in {1, 3}
          /\ tsl \in {Ratio(1, 2), One}
          /\ tat \in 0 .. 1
    /\ Fresh
    /\ entry_stdout = "terminal"
    /\ NotWrapped

Fail(e, where) ==
    /\ pc' = "failed"
    /\ exc' = e
    /\ raised_in' = where

\* A mutation of InvalidTarget: the ends 0 and 1 of the range rejected too.
InvalidTarget_EndsExcluded(t) == FLessEq(One, t) \/ FLessEq(t, Zero)

\* The check of __init__: self.tsl > 1 or self.tsl < 0.
InvalidTarget(t) == FLess(One, t) \/ FLess(t, Zero)

\* __init__, lines 48-58: store the arguments, check the target level.
Validate ==
    /\ pc = "init"
    /\ IF InvalidTarget(tsl)
       THEN Fail("ValueError", "__init__")
       ELSE pc' = "traffic" /\ UNCHANGED <<exc, raised_in>>
    /\ UNCHANGED <<lvars, inputs, period, cph, erlangs, raw_agents, p_wait, agents,
                   tried, ret>>

\* __init__: self.erlangs = self.traffic_intensity() (erlang.py), or the
\* three assignments period, cph, erlangs (erlang_class.py).
TrafficIntensity ==
    /\ pc = "traffic"
    /\ IF variant = "erlang"
       THEN LET r == traffic_intensity(calls, aht, start_time, end_time)
            IN  /\ IF r.exc # ""
                   THEN Fail(r.exc, "traffic_intensity") /\ erlangs' = erlangs
                   ELSE /\ erlangs' = r.val
                        /\ pc' = "guess"
                        /\ UNCHANGED <<exc, raised_in>>
                /\ UNCHANGED <<period, cph>>
       ELSE LET p == period_in_seconds(start_time, end_time)
                r == calls_per_hour(calls, p)
            IN  /\ period' = p
                /\ IF r.exc # ""
                   THEN Fail(r.exc, "calls_per_hour") /\ UNCHANGED <<cph, erlangs>>
                   ELSE /\ cph' = r.val
                        /\ erlangs' = class_traffic_intensity(r.val, aht)
                        /\ pc' = "guess"
                        /\ UNCHANGED <<exc, raised_in>>
    /\ UNCHANGED <<lvars, inputs, raw_agents, p_wait, agents, tried, ret>>

\* raw_agents_required: agents = ceil(self.erlangs).
InitialGuess ==
    /\ pc = "guess"
    /\ agents' = Ceil(erlangs)
    /\ pc' = "search"
    /\ UNCHANGED <<lvars, inputs, period, cph, erlangs, raw_agents, p_wait, tried, exc,
                   raised_in, ret>>

\* A mutation of KeepSearching: the loop goes on while the level is
\* at most the target.
KeepSearching_AtMost(level, target) == FLessEq(level, target)

\* The loop condition of the search.
KeepSearching(level, target) == FLess(level, target)

\* The loop of raw_agents_required from agents_ on, as a function of the
\* object's attributes; "MaxAgents" when the loop would pass the bound.
\* r is the value of the loop condition's one call of service_level.
RECURSIVE SearchFrom(_, _, _, _, _)
SearchFrom(a, agents_, tsl_, tat_, aht_) ==
    CHOOSE result \in
        {IF r.exc # "" THEN r
         ELSE IF ~KeepSearching(r.val, tsl_) THEN ReturnsInt(agents_)
         ELSE IF agents_ >= MaxAgents THEN Raises("MaxAgents")
         ELSE SearchFrom(a, agents_ + 1, tsl_, tat_, aht_) :
            r \in {service_level(a, agents_, tat_, aht_)}} : TRUE

\* raw_agents_required() called on an object.
raw_agents_required(a, tsl_, tat_, aht_) ==
    SearchFrom(a, Ceil(a), tsl_, tat_, aht_)

\* raw_agents_required: one evaluation of the loop condition, then
\* agents += 1, or return agents and self.raw_agents = the result.
SearchStep ==
    /\ pc = "search"
    /\ LET r == service_level(erlangs, agents, tat, aht)
       IN  IF r.exc # ""
           THEN /\ Fail(r.exc, "erlang_c")
                /\ UNCHANGED <<agents, raw_agents>>
           ELSE IF KeepSearching(r.val, tsl)
           THEN /\ agents < MaxAgents
                /\ agents' = agents + 1
                /\ UNCHANGED <<pc, raw_agents, exc, raised_in>>
           ELSE /\ raw_agents' = agents
                /\ pc' = IF variant = "erlang" THEN "p_wait" ELSE "ready"
                /\ UNCHANGED <<agents, exc, raised_in>>
    /\ tried' = tried \cup {agents}
    /\ UNCHANGED <<lvars, inputs, period, cph, erlangs, p_wait, ret>>

\* __init__, line 62: self.p_wait = self.erlang_c(self.raw_agents).
PWait ==
    /\ pc = "p_wait"
    /\ LET r == erlang_c(erlangs, raw_agents)
       IN  IF r.exc # ""
           THEN Fail(r.exc, "erlang_c") /\ p_wait' = p_wait
           ELSE /\ p_wait' = r.val
                /\ pc' = "ready"
                /\ UNCHANGED <<exc, raised_in>>
    /\ UNCHANGED <<lvars, inputs, period, cph, erlangs, raw_agents, agents, tried, ret>>

Construct == Validate \/ TrafficIntensity \/ InitialGuess \/ SearchStep \/ PWait

\* A mutation of Call: erlang_c keeps what it computed in p_wait.
Call_KeepsProbability(r) ==
    /\ pc = "ready"
    /\ ret' = r
    /\ p_wait' = IF r.op = "erlang_c" /\ r.res.exc = "" /\ variant = "erlang"
                 THEN r.res.val ELSE p_wait
    /\ UNCHANGED <<lvars, inputs, period, cph, erlangs, raw_agents, pc, agents,
                   tried, exc, raised_in>>

\* A method call on the constructed object leaves the object as it is.
Call(r) ==
    /\ pc = "ready"
    /\ ret' = r
    /\ UNCHANGED <<lvars, inputs, period, cph, erlangs, raw_agents, p_wait, pc, agents,
                   tried, exc, raised_in>>

CallErlangC(n) ==
    Call([op |-> "erlang_c", n |-> n, x |-> Zero, res |-> erlang_c(erlangs, n)])

CallServiceLevel(n) ==
    Call([op |-> "service_level", n |-> n, x |-> Zero,
          res |-> service_level(erlangs, n, tat, aht)])

CallRawAgentsRequired ==
    /\ pc = "ready"
    /\ \E r \in {raw_agents_required(erlangs, tsl, tat, aht)} :
           /\ r.exc # "MaxAgents"
           /\ Call([op |-> "raw_agents_required", n |-> 0, x |-> Zero,
                    res |-> r])

CallAverageSpeedOfAnswer ==
    /\ variant = "erlang"
    /\ Call([op |-> "average_speed_of_answer", n |-> 0, x |-> Zero,
             res |-> average_speed_of_answer(p_wait, aht, raw_agents, erlangs)])

CallPercentageCallsAnsweredImmediately ==
    /\ variant = "erlang"
    /\ Call([op |-> "percentage_calls_answered_immediately", n |-> 0,
             x |-> Zero, res |-> percentage_calls_answered_immediately(p_wait)])

CallErlangA(patience) ==
    /\ variant = "erlang"
    /\ Call([op |-> "erlang_a", n |-> patience, x |-> Zero,
             res |-> erlang_a(p_wait, erlangs, raw_agents, patience, aht)])

CallOccupancy ==
    /\ variant = "erlang"
    /\ Call([op |-> "occupancy", n |-> 0, x |-> Zero,
             res |-> occupancy(erlangs, raw_agents)])

CallAgentsRequired(s) ==
    /\ variant = "erlang"
    /\ Call([op |-> "agents_required", n |-> 0, x |-> s,
             res |-> agents_required(raw_agents, s)])

Next ==
    \/ Validate
    \/ TrafficIntensity
    \/ InitialGuess
    \/ SearchStep
    \/ PWait
    \/ \E n \in AgentArgs : CallErlangC(n)
    \/ CallOccupancy
    \/ \E s \in Shrinkages : CallAgentsRequired(s)

Spec == Init /\ [][Next]_vars

\* The states in which Construct has no step: the constructor has returned
\* or raised, or the search is at the bound MaxAgents and would go on.
ConstructDisabled ==
    \/ pc \in {"ready", "failed"}
    \/ /\ pc = "search"
       /\ agents >= MaxAgents
       /\ LET r == service_level(erlangs, agents, tat, aht)
          IN  r.exc = "" /\ KeepSearching(r.val, tsl)

\* The constructor is one sequential call: it runs until it returns or
\* raises.  This is WF_vars(Construct), written out with the enabling
\* condition of Construct as a state predicate.
FairSpec == Spec /\ ([]<>ConstructDisabled \/ []<><<Construct>>_vars)

\* The constructor is entered with a few workloads, those of a single call
\* and of MaxCalls calls, the workload of tests/erlang_test.py and one whose
\* window and handling time are both negative, and with every target level.
MetricsInit ==
    /\ variant \in {"erlang", "erlang_class"}
    /\ start_time = 0
    /\ \/ /\ end_time = MinPeriod
          /\ calls \in {1, MaxCalls}
          /\ aht = MaxAht
          /\ tsl \in TargetLevels
          /\ tat = MaxTat
       \/ /\ end_time = 1800
          /\ calls = 100
          /\ aht = 180
          /\ tsl = Ratio(4, 5)
          /\ tat = 20
       \/ /\ end_time = 0 - 2
          /\ calls = 1
          /\ aht = 0 - 1
          /\ tsl = Ratio(1, 2)
          /\ tat = 1
    /\ Fresh
    /\ entry_stdout = "terminal"
    /\ NotWrapped

\* The constructor, then every metric method of the object, in any order
\* and any number of times.
MetricsNext ==
    \/ Next
    \/ \E n \in AgentArgs : CallServiceLevel(n)
    \/ CallRawAgentsRequired
    \/ CallAverageSpeedOfAnswer
    \/ CallPercentageCallsAnsweredImmediately
    \/ \E a \in Patiences : CallErlangA(a)

MetricsSpec == MetricsInit /\ [][MetricsNext]_vars

\* ------------------------------------------------------------ loading.py
\* len(_chars).
NumChars == 4

\* The streams sys.stdout may refer to when wrapper is entered.
EntryStreams == {"terminal", "outer"}

\* A call of a function wrapped by loading_animation; the calculator is not
\* involved.
LoadingInit ==
    /\ variant = "erlang"
    /\ start_time = 0
    /\ end_time = 1800
    /\ calls = 100
    /\ aht = 180
    /\ tsl = Ratio(4, 5)
    /\ tat = 20
    /\ Fresh
    /\ entry_stdout \in EntryStreams
    /\ NotWrapped

\* stream.write(item): the entry stream shows it, the StringIO keeps it.
\* A frame starts with a carriage return and so replaces the frame before
\* it.
Write(stream, item) ==
    IF stream = "func_stdout"
    THEN func_stdout' = Append(func_stdout, item) /\ shown' = shown
    ELSE /\ func_stdout' = func_stdout
         /\ shown' = IF /\ item = "frame"
                        /\ shown # <<>>
                        /\ shown[Len(shown)] = "frame"
                     THEN shown
                     ELSE Append(shown, item)

\* wrapper, line 19: loading_stdout = sys.stdout.
SaveStdout ==
    /\ wrapper_pc = "enter"
    /\ loading_stdout' = sys_stdout
    /\ wrapper_pc' = "redirect"
    /\ UNCHANGED <<vars, animate_pc, _done, char_ix, entry_stdout, sys_stdout,
                   func_stdout, shown, printed, outcome, observed, joined_at>>

\* wrapper, lines 20-21: sys.stdout = func_stdout.
Redirect ==
    /\ wrapper_pc = "redirect"
    /\ sys_stdout' = "func_stdout"
    /\ wrapper_pc' = "start"
    /\ UNCHANGED <<vars, animate_pc, _done, char_ix, entry_stdout,
                   loading_stdout, func_stdout, shown, printed, outcome,
                   observed, joined_at>>

\* wrapper, lines 35-36: _t.start().
StartThread ==
    /\ wrapper_pc = "start"
    /\ animate_pc' = "while"
    /\ wrapper_pc' = "func"
    /\ UNCHANGED <<vars, _done, char_ix, entry_stdout, sys_stdout,
                   loading_stdout, func_stdout, shown, printed, outcome,
                   observed, joined_at>>

\* wrapper, line 39: func prints.
FuncPrints ==
    /\ wrapper_pc = "func"
    /\ printed < MaxPrints
    /\ printed' = printed + 1
    /\ Write(sys_stdout, "output")
    /\ UNCHANGED <<vars, wrapper_pc, animate_pc, _done, char_ix, entry_stdout,
                   sys_stdout, loading_stdout, outcome, observed, joined_at>>

\* wrapper, line 39: func returns or raises; the finally clause is next.
FuncEnds(how) ==
    /\ wrapper_pc = "func"
    /\ outcome' = how
    /\ wrapper_pc' = "finally"
    /\ UNCHANGED <<vars, animate_pc, _done, char_ix, entry_stdout, sys_stdout,
                   loading_stdout, func_stdout, shown, printed, observed,
                   joined_at>>

\* wrapper, line 41: _done = True.
SetDone ==
    /\ wrapper_pc = "finally"
    /\ _done' = TRUE
    /\ wrapper_pc' = "join"
    /\ UNCHANGED <<vars, animate_pc, char_ix, entry_stdout, sys_stdout,
                   loading_stdout, func_stdout, shown, printed, outcome,
                   observed, joined_at>>

\* A mutation of Join: the thread is not waited for.
Join_NoWait ==
    /\ wrapper_pc = "join"
    /\ wrapper_pc' = "restore"
    /\ UNCHANGED <<vars, animate_pc, _done, char_ix, entry_stdout, sys_stdout,
                   loading_stdout, func_stdout, shown, printed, outcome,
                   observed, joined_at>>

\* wrapper, line 42: _t.join() returns once the thread has terminated.
Join ==
    /\ wrapper_pc = "join"
    /\ animate_pc = "terminated"
    /\ wrapper_pc' = "restore"
    /\ UNCHANGED <<vars, animate_pc, _done, char_ix, entry_stdout, sys_stdout,
                   loading_stdout, func_stdout, shown, printed, outcome,
                   observed, joined_at>>

\* wrapper, line 43: sys.stdout = loading_stdout.
Restore ==
    /\ wrapper_pc = "restore"
    /\ sys_stdout' = loading_stdout
    /\ joined_at' = animate_pc
    /\ wrapper_pc' = "print"
    /\ UNCHANGED <<vars, animate_pc, _done, char_ix, entry_stdout,
                   loading_stdout, func_stdout, shown, printed, outcome,
                   observed>>

\* wrapper, lines 44-46: print(func_stdout.getvalue(), end=''), then the
\* return of _result or the exception of func.
PrintCaptured ==
    /\ wrapper_pc = "print"
    /\ IF sys_stdout = "func_stdout"
       THEN func_stdout' = func_stdout \o func_stdout /\ shown' = shown
       ELSE func_stdout' = func_stdout /\ shown' = shown \o func_stdout
    /\ wrapper_pc' = IF outcome = "raises" THEN "raised" ELSE "returned"
    /\ UNCHANGED <<vars, animate_pc, _done, char_ix, entry_stdout, sys_stdout,
                   loading_stdout, printed, outcome, observed, joined_at>>

\* animate, line 25: while not _done.
WhileCheck ==
    /\ animate_pc = "while"
    /\ IF _done
       THEN animate_pc' = "final" /\ observed' = TRUE /\ char_ix' = char_ix
       ELSE animate_pc' = "for" /\ observed' = observed /\ char_ix' = 0
    /\ UNCHANGED <<vars, wrapper_pc, _done, entry_stdout, sys_stdout,
                   loading_stdout, func_stdout, shown, printed, outcome,
                   joined_at>>

\* animate, lines 26-28: the next c of _chars, and if _done: break.
ForCheck ==
    /\ animate_pc = "for"
    /\ animate_pc' = IF char_ix >= NumChars \/ _done THEN "while" ELSE "write"
    /\ UNCHANGED <<vars, wrapper_pc, _done, char_ix, entry_stdout, sys_stdout,
                   loading_stdout, func_stdout, shown, printed, outcome,
                   observed, joined_at>>

\* animate, lines 29-30: a frame is written to loading_stdout.
WriteFrame ==
    /\ animate_pc = "write"
    /\ Write(loading_stdout, "frame")
    /\ animate_pc' = "sleep"
    /\ UNCHANGED <<vars, wrapper_pc, _done, char_ix, entry_stdout, sys_stdout,
                   loading_stdout, printed, outcome, observed, joined_at>>

\* animate, line 31: sleep(0.1), then the for loop goes on.
Sleep ==
    /\ animate_pc = "sleep"
    /\ char_ix' = char_ix + 1
    /\ animate_pc' = "for"
    /\ UNCHANGED <<vars, wrapper_pc, _done, entry_stdout, sys_stdout,
                   loading_stdout, func_stdout, shown, printed, outcome,
                   observed, joined_at>>

\* animate, lines 32-33: the line '...done' is written; the thread ends.
WriteDone ==
    /\ animate_pc = "final"
    /\ Write(loading_stdout, "done")
    /\ animate_pc' = "terminated"
    /\ UNCHANGED <<vars, wrapper_pc, _done, char_ix, entry_stdout, sys_stdout,
                   loading_stdout, printed, outcome, observed, joined_at>>

wrapper ==
    \/ SaveStdout
    \/ Redirect
    \/ StartThread
    \/ FuncPrints
    \/ \E how \in {"returns", "raises"} : FuncEnds(how)
    \/ SetDone
    \/ Join
    \/ Restore
    \/ PrintCaptured

animate == WhileCheck \/ ForCheck \/ WriteFrame \/ Sleep \/ WriteDone

LoadingNext ==
    \/ SaveStdout
    \/ Redirect
    \/ StartThread
    \/ FuncPrints
    \/ \E how \in {"returns", "raises"} : FuncEnds(how)
    \/ SetDone
    \/ Join
    \/ Restore
    \/ PrintCaptured
    \/ WhileCheck
    \/ ForCheck
    \/ WriteFrame
    \/ Sleep
    \/ WriteDone

LoadingSpec == LoadingInit /\ [][LoadingNext]_lvars

\* Both threads are scheduled, and func ends.
LoadingFairSpec == LoadingSpec /\ WF_lvars(wrapper) /\ WF_lvars(animate)

\* ==================================================================
\* Properties
\* ==================================================================
\* The workload is valid: calls >= 0, a window of positive length, a
\* positive handling time.
ValidWorkload == calls >= 0 /\ end_time > start_time /\ aht > 0

\* The target level is in [0, 1].
TargetInRange == Man(tsl) >= 0 /\ FLessEq(tsl, One)

\* raw_agents_required has returned.
SearchReturned == pc \in {"p_wait", "ready"}

\* n agents are more than the traffic intensity.
Above(n) == FLess(erlangs, IntToFloat(n))

\* n is a valid argument of erlang_c: a positive integer above the traffic
\* intensity.
ValidAgents(n) == n >= 1 /\ Above(n)

\* The service level with n agents reaches the target.
MeetsTarget(n) ==
    LET r == service_level(erlangs, n, tat, aht)
    IN  r.exc = "" /\ FLessEq(tsl, r.val)

\* No smaller agent count above the traffic intensity reaches the target.
NoneBelowMeets(n) == \A m \in 1 .. (n - 1) : Above(m) => ~MeetsTarget(m)

\* C1: for every valid workload and target the staffing search returns, and
\* what it returns is the minimum agent count that meets the target: the
\* service level at raw_agents is at least tsl, and no agent count between
\* the traffic intensity and raw_agents has a service level of at least tsl.
C1_SearchReturnsMinimum ==
    (ValidWorkload /\ TargetInRange) =>
        /\ pc # "failed"
        /\ SearchReturned => MeetsTarget(raw_agents) /\ NoneBelowMeets(raw_agents)

\* What the search does guarantee: whenever it returns, its result is that
\* minimum.
MinimumWhenReturned ==
    (ValidWorkload /\ SearchReturned) => MeetsTarget(raw_agents) /\ NoneBelowMeets(raw_agents)

\* C2: the search starts from ceil(traffic_intensity) + 1, and every agent
\* count it evaluates, and the one it returns, is a positive integer strictly
\* greater than the traffic intensity.
C2_AgentsAboveTraffic ==
    /\ (pc = "search" /\ tried = {}) => agents = Ceil(erlangs) + 1
    /\ \A n \in tried : ValidAgents(n)
    /\ SearchReturned => ValidAgents(raw_agents)

\* C3: with no calls (traffic intensity 0) the search returns 1 agent for
\* every target level in [0, 1] and every target answer time, and raises
\* nothing.
C3_ZeroTrafficReturnsOne ==
    (ValidWorkload /\ TargetInRange /\ calls = 0) =>
        /\ pc # "failed"
        /\ SearchReturned => raw_agents = 1

\* C4: the staffing search ends after finitely many increments of the agent
\* count (it returns, or it raises), for every traffic intensity and every
\* target level up to 1, target level 1 and target answer time 0 included.
C4_SearchTerminates == (pc = "search") ~> (pc \in {"p_wait", "ready", "failed"})

\* The search went through increments and returned, with target level 1 and
\* target answer time 0.
C4_Witness ==
    /\ SearchReturned
    /\ tsl = One
    /\ tat = 0
    /\ raw_agents > Ceil(erlangs) + 1

\* C5: a target level below 0 or above 1 makes the constructor raise
\* ValueError before the traffic intensity, the search or the queueing
\* probability is computed; a target level in [0, 1], ends included, is never
\* rejected by that check.
C5_TargetLevelValidated ==
    /\ (pc # "init" /\ ~TargetInRange) =>
           /\ pc = "failed"
           /\ exc = "ValueError"
           /\ raised_in = "__init__"
           /\ erlangs = Unset
           /\ raw_agents = 0
           /\ p_wait = Unset
           /\ tried = {}
    /\ TargetInRange => raised_in # "__init__"

\* The constructor has rejected a target level above 1.
C5_Witness == pc = "failed" /\ raised_in = "__init__" /\ FLess(One, tsl)

\* |v - num/den| <= 5 * 2^-Prec * num/den, for a float v and ints num >= 0,
\* den > 0: v is num/den up to the rounding of four operations.
Near(v, num, den) ==
    LET m == Man(v)
        e == Exp2(v)
    IN  IF e >= 0
        THEN Abs(m * (2 ^ e) * den - num) * (2 ^ Prec) <= 5 * num
        ELSE IF 0 - e >= Prec
        THEN Abs(m * den - num * (2 ^ (0 - e))) <= 5 * num * (2 ^ (0 - e - Prec))
        ELSE Abs(m * den - num * (2 ^ (0 - e))) * (2 ^ (Prec + e)) <= 5 * num

\* The workload of tests/erlang_test.py: 100 calls in 1800 s, 180 s each.
TestWorkload == calls = 100 /\ end_time - start_time = 1800 /\ aht = 180

\* C6 as stated: the traffic intensity is one value, whichever way it is
\* computed: the direct formula calls * (aht / period) and the two steps
\* calls_per_hour, then cph * (aht / 3600), yield the same number.
C6_TwoStepEqualsDirect ==
    (ValidWorkload /\ erlangs # Unset) =>
        /\ erlangs = traffic_intensity(calls, aht, start_time, end_time).val
        /\ erlangs = class_traffic_intensity(
                         calls_per_hour(calls,
                             period_in_seconds(start_time, end_time)).val, aht)

\* C6 as amended: the traffic intensity, computed either way, is
\* calls * aht / duration up to floating-point rounding (a relative error of
\* at most 5 units in the last place), so that the two computations agree to
\* that accuracy; for 100 calls in 1800 s with 180 s each it is exactly 10.0.
C6_TrafficIntensityNearQuotient ==
    (ValidWorkload /\ erlangs # Unset) =>
        /\ Near(erlangs, calls * aht, end_time - start_time)
        /\ TestWorkload => erlangs = IntToFloat(10)

\* The two-step computation has given 10.0 for the test's workload.
C6_Witness ==
    /\ variant = "erlang_class"
    /\ TestWorkload
    /\ erlangs # Unset
    /\ erlangs = IntToFloat(10)

\* C7: for a valid argument (agents a positive integer above the traffic
\* intensity, which is >= 0) erlang_c returns a probability in (0, 1],
\* whether a caller or the constructor evaluates it.
C7_ProbabilityInHalfOpenUnit ==
    /\ (ret.op = "erlang_c" /\ ValidAgents(ret.n)) =>
           /\ ret.res.exc = ""
           /\ Man(ret.res.val) > 0
           /\ FLessEq(ret.res.val, One)
    /\ (pc = "failed" /\ raised_in = "erlang_c") => ~ValidAgents(agents)

\* C8: erlang_c called with agents <= traffic intensity or agents <= 0 raises
\* instead of returning a number.
C8_InvalidAgentsRejected ==
    (ret.op = "erlang_c" /\ ~ValidAgents(ret.n)) => ret.res.exc # ""

\* C9: the occupancy of a constructed object is strictly between 0 and 1.
C9_OccupancyInsideUnitInterval ==
    ret.op = "occupancy" =>
        /\ ret.res.exc = ""
        /\ Man(ret.res.val) > 0
        /\ FLess(ret.res.val, One)

\* C10: agents_required raises for every shrinkage >= 1 and returns no
\* headcount then; for a shrinkage in [0, 1) it returns
\* ceil(raw_agents / (1 - shrinkage)), which is at least raw_agents.
C10_ShrinkageValidated ==
    ret.op = "agents_required" =>
        IF FLessEq(One, ret.x) THEN ret.res.exc # ""
        ELSE IF Man(ret.x) >= 0
        THEN /\ ret.res.exc = ""
             /\ ret.res.int =
                    Ceil(FDiv(IntToFloat(raw_agents), FSub(One, ret.x)))
             /\ ret.res.int >= raw_agents
        ELSE TRUE

\* The traffic-intensity step of the constructor has been taken.
PastTraffic == pc \notin {"init", "traffic"}

\* C11: with a window of duration <= 0 seconds or a handling time <= 0 the
\* constructor fails at the traffic-intensity step: it raises there, and no
\* traffic intensity and no agent count is produced.
C11_InvalidWorkloadRejected ==
    (~ValidWorkload /\ TargetInRange /\ PastTraffic) =>
        /\ pc = "failed"
        /\ raised_in \in {"traffic_intensity", "calls_per_hour"}
        /\ erlangs = Unset
        /\ tried = {}
        /\ raw_agents = 0

\* The stored staffing result agrees with what the methods compute from the
\* object: the search run again, the queueing probability at raw_agents and
\* the service level at raw_agents.
StoredResultConsistent ==
    /\ raw_agents_required(erlangs, tsl, tat, aht) = ReturnsInt(raw_agents)
    /\ variant = "erlang" => erlang_c(erlangs, raw_agents) = Returns(p_wait)
    /\ MeetsTarget(raw_agents)

\* What erlang_a returns is computed from the queueing probability at
\* raw_agents.
ErlangAFromStored ==
    ret.op = "erlang_a" =>
        ret.res = erlang_a(erlang_c(erlangs, raw_agents).val, erlangs,
                           raw_agents, ret.n, aht)

\* C12: once the object is constructed, and whatever metric methods are
\* called on it, raw_agents and p_wait stay as the constructor left them,
\* raw_agents is what raw_agents_required() returns, p_wait is
\* erlang_c(raw_agents), service_level(raw_agents) is at least the target
\* level, and erlang_a works from that p_wait.
C12_StoredResultStable ==
    /\ [](pc = "ready" => StoredResultConsistent /\ ErlangAFromStored)
    /\ [][pc = "ready" => raw_agents' = raw_agents /\ p_wait' = p_wait]_vars

\* A constructed object on which raw_agents_required() has been called
\* after other methods, its result the stored one.
C12_Witness ==
    /\ pc = "ready"
    /\ variant = "erlang"
    /\ ret.op = "raw_agents_required"
    /\ ret.res.int = raw_agents
    /\ raw_agents > Ceil(erlangs)
    /\ p_wait # Unset

\* wrapper has been left, by the return of _result or by func's exception.
Exited == wrapper_pc \in {"returned", "raised"}

\* sys.stdout has been reassigned by line 43.
Reassigned == wrapper_pc \in {"print", "returned", "raised"}

\* The places of the line '...done' in what the entry stream shows.
DoneLines == {i \in 1 .. Len(shown) : shown[i] = "done"}

\* The entry stream shows func's output only after the line '...done', and
\* no frame after that line.
DoneLineFirst ==
    \A i \in 1 .. Len(shown) :
        /\ shown[i] = "output" => \E j \in DoneLines : j < i
        /\ shown[i] = "frame" => \A j \in DoneLines : i < j

\* The entry stream ends with the line '...done' and then all that func
\* has printed.
CapturedShownLast ==
    LET n == Len(shown) - Len(func_stdout)
    IN  /\ n >= 1
        /\ shown[n] = "done"
        /\ DoneLines = {n}
        /\ \A i \in 1 .. Len(func_stdout) : shown[n + i] = func_stdout[i]

\* C13: whenever wrapper is left, func having returned or raised, and
\* however the two threads interleave: when sys.stdout was reassigned the
\* animation thread had read _done as True, written the line '...done' and
\* terminated; sys.stdout refers to the stream it referred to on entry; and
\* what func printed is shown on that stream after the line '...done' and
\* not before.  Once func is called, wrapper is left.
C13_AnimationEndsBeforeRestore ==
    /\ [](Reassigned =>
             /\ joined_at = "terminated"
             /\ animate_pc = "terminated"
             /\ observed
             /\ DoneLines # {})
    /\ [](DoneLineFirst)
    /\ [](Exited =>
             /\ sys_stdout = entry_stdout
             /\ Len(func_stdout) = printed
             /\ CapturedShownLast)
    /\ (wrapper_pc = "func") ~> Exited

\* wrapper has been left by func's exception, with frames shown while func
\* was printing and entered from a stream that is not the terminal.
C13_Witness ==
    /\ wrapper_pc = "raised"
    /\ entry_stdout = "outer"
    /\ printed = MaxPrints
    /\ shown # <<>>
    /\ shown[1] = "frame"

====
